---------------------------- MODULE Spec2Model ----------------------------
(***************************************************************************)
(* A model of the type-resolution core of fhir-model-rs: the choice        *)
(* expansion map and the choice type definition (choice_types.rs), the     *)
(* dependency graph (fhirpath_types.rs), the navigation path               *)
(* (navigation.rs), the type compatibility matrix and the type hierarchy   *)
(* (type_system.rs) and the type reflection operations (reflection.rs).    *)
(*                                                                         *)
(* Each component has its own specification over the shared variables; a   *)
(* component that a specification does not exercise stays in the state     *)
(* its constructor leaves it in.                                           *)
(*                                                                         *)
(* Conventions.                                                            *)
(*   Option<T>  : <<>> is None, <<v>> is Some(v).                          *)
(*   Qualified type names (reflection.rs) are sequences of tokens, so that *)
(*   format!("{namespace}.{name}") is a real concatenation and "contains"  *)
(*   is a real sub-sequence search: "System.Integer" is                    *)
(*   <<"System", ".", "Integer">>.                                         *)
(*   f32 values are kept exactly, as integers in units of 2^-27.           *)
(***************************************************************************)
EXTENDS Integers, Sequences, FiniteSets, TLC

VARIABLES
    \* ChoiceExpansion (choice_types.rs)
    forward_mappings, reverse_mappings, added,
    \* DependencyGraph (fhirpath_types.rs)
    dependencies, involved_types, circular_dependencies, resolution_order,
    complexity_metrics, graph_op,
    \* NavigationPath (navigation.rs)
    segments, complexity,
    \* TypeCompatibilityMatrix (type_system.rs)
    implicit_conversions, explicit_conversions, conversions,
    reg_implicit, n_inserts,
    \* TypeReflectionInfo::can_convert_to (reflection.rs)
    conv_self, conv_target, conv_result,
    \* TypeReflectionInfo::resolve_choice_type (reflection.rs)
    rc_self, rc_context, rc_result,
    \* ChoiceTypeDefinition (choice_types.rs)
    possible_types,
    \* TypeReflectionInfo::is_subtype_of, get_ancestors, common_supertype
    sub_self, sub_other, sub_result,
    \* type_system::TypeHierarchy::type_distance (type_system.rs)
    dist_hierarchy, dist_target, dist_result,
    \* reflection::TypeHierarchy (reflection.rs); the last two record the calls
    root_type, parents, children, descendants, parents_added, children_added,
    \* ConstraintInfo (constraints.rs)
    constraint, validated

expansion_vars == <<forward_mappings, reverse_mappings, added>>
graph_vars == <<dependencies, involved_types, circular_dependencies,
                resolution_order, complexity_metrics, graph_op>>
nav_vars == <<segments, complexity>>
matrix_vars == <<implicit_conversions, explicit_conversions, conversions,
                 reg_implicit, n_inserts>>
convert_vars == <<conv_self, conv_target, conv_result>>
resolve_vars == <<rc_self, rc_context, rc_result>>
choice_vars == <<possible_types>>
subtype_vars == <<sub_self, sub_other, sub_result>>
distance_vars == <<dist_hierarchy, dist_target, dist_result>>
hierarchy_vars == <<root_type, parents, children, descendants, parents_added,
                    children_added>>
constraint_vars == <<constraint, validated>>

vars == <<expansion_vars, graph_vars, nav_vars, matrix_vars, convert_vars,
          resolve_vars, choice_vars, subtype_vars, distance_vars, hierarchy_vars,
          constraint_vars>>

-----------------------------------------------------------------------------
(* Option and map helpers *)

None == <<>>

Some(v) == <<v>>

\* HashMap::insert: the entry for k is created or overwritten.
MapInsert(m, k, v) ==
    [x \in (DOMAIN m) \cup {k} |-> IF x = k THEN v ELSE m[x]]

\* HashMap::get(..).cloned()
MapGet(m, k) == IF k \in DOMAIN m THEN Some(m[k]) ELSE None

EmptyMap == [x \in {} |-> 0]

\* Vec::contains
Contains(s, v) == \E i \in 1..Len(s) : s[i] = v

-----------------------------------------------------------------------------
(* ChoiceExpansion: choice_types.rs *)

ExpansionTypeNames == {"string", "boolean", "integer"}

ExpansionPropertyNames == {"valueString", "valueBoolean", "valueInteger"}

\* ChoiceExpansion::new
InitExpansion ==
    /\ forward_mappings = EmptyMap
    /\ reverse_mappings = EmptyMap
    /\ added = {}

\* ChoiceExpansion::add_mapping; `added` records every pair ever passed in.
add_mapping(type_name, property_name) ==
    /\ forward_mappings' = MapInsert(forward_mappings, type_name, property_name)
    /\ reverse_mappings' = MapInsert(reverse_mappings, property_name, type_name)
    /\ added' = added \cup {<<type_name, property_name>>}
    /\ UNCHANGED <<graph_vars, nav_vars, matrix_vars, convert_vars, resolve_vars,
                 choice_vars, subtype_vars, distance_vars,
                 hierarchy_vars, constraint_vars>>

\* ChoiceExpansion::expand_to_type
expand_to_type(type_name) == MapGet(forward_mappings, type_name)

\* ChoiceExpansion::get_base_type
get_base_type(expanded_property) == MapGet(reverse_mappings, expanded_property)

-----------------------------------------------------------------------------
(* DependencyGraph: fhirpath_types.rs *)

GraphTypes == {"A", "B", "C"}

MaxEdges == 3

\* str::cmp on the type names used here
TypeRank == [t \in GraphTypes |-> CASE t = "A" -> 1 [] t = "B" -> 2 [] OTHER -> 3]

\* The descending comparison
LexGreater(a, b) == TypeRank[a] > TypeRank[b]

LexLess(a, b) == TypeRank[a] < TypeRank[b]

\* TypeDependency: only source_type and target_type are read by the graph.
TypeDependency(s, t) == [source_type |-> s, target_type |-> t]

\* f64 quotient a / b, kept exact as the pair <<a, b>>
Ratio(a, b) == <<a, b>>

\* DependencyGraph::new
InitGraph ==
    /\ dependencies = <<>>
    /\ involved_types = <<>>
    /\ circular_dependencies = <<>>
    /\ resolution_order = <<>>
    /\ complexity_metrics = [node_count |-> 0, edge_count |-> 0, max_depth |-> 0,
                             average_fan_out |-> Ratio(0, 1), density |-> Ratio(0, 1)]
    /\ graph_op = "new"

\* A registration that pushes the type whether or not it is present
PushAlways(s, x) == Append(s, x)

\* involved_types.push(x) unless involved_types.contains(x)
PushIfAbsent(s, x) == IF Contains(s, x) THEN s ELSE Append(s, x)

\* DependencyGraph::update_metrics, on the graph (types, deps)
update_metrics(m, types, deps) ==
    LET node_count == Len(types)
        edge_count == Len(deps)
        max_possible_edges == node_count * (node_count - 1)
    IN  [node_count |-> node_count,
         edge_count |-> edge_count,
         max_depth |-> m.max_depth,
         average_fan_out |-> IF node_count > 0 THEN Ratio(edge_count, node_count)
                             ELSE m.average_fan_out,
         density |-> IF node_count > 0 /\ max_possible_edges > 0
                     THEN Ratio(edge_count, max_possible_edges)
                     ELSE m.density]

\* DependencyGraph::add_dependency
add_dependency(dependency) ==
    /\ Len(dependencies) < MaxEdges
    /\ LET types1 == PushIfAbsent(involved_types, dependency.source_type)
           types2 == PushIfAbsent(types1, dependency.target_type)
           deps == Append(dependencies, dependency)
       IN  /\ involved_types' = types2
           /\ dependencies' = deps
           /\ complexity_metrics' = update_metrics(complexity_metrics, types2, deps)
    /\ graph_op' = "add_dependency"
    /\ UNCHANGED <<circular_dependencies, resolution_order>>
    /\ UNCHANGED <<expansion_vars, nav_vars, matrix_vars, convert_vars, resolve_vars,
                 choice_vars, subtype_vars, distance_vars,
                 hierarchy_vars, constraint_vars>>

\* DependencyGraph::has_path
has_path(deps, from, to) ==
    \E i \in 1..Len(deps) : deps[i].source_type = from /\ deps[i].target_type = to

\* The loop of detect_cycles over the first n dependencies
RECURSIVE CyclesUpTo(_, _)
CyclesUpTo(deps, n) ==
    IF n = 0 THEN <<>>
    ELSE LET dependency == deps[n]
             before == CyclesUpTo(deps, n - 1)
         IN  IF has_path(deps, dependency.target_type, dependency.source_type)
             THEN Append(before,
                         [cycle_types |-> <<dependency.source_type,
                                            dependency.target_type>>,
                          cycle_length |-> 2])
             ELSE before

\* DependencyGraph::detect_cycles
detect_cycles ==
    /\ circular_dependencies' = CyclesUpTo(dependencies, Len(dependencies))
    /\ graph_op' = "detect_cycles"
    /\ UNCHANGED <<dependencies, involved_types, resolution_order, complexity_metrics>>
    /\ UNCHANGED <<expansion_vars, nav_vars, matrix_vars, convert_vars, resolve_vars,
                 choice_vars, subtype_vars, distance_vars,
                 hierarchy_vars, constraint_vars>>

\* DependencyGraph::compute_resolution_order
compute_resolution_order ==
    /\ resolution_order' = SortSeq(involved_types, LexLess)
    /\ graph_op' = "compute_resolution_order"
    /\ UNCHANGED <<dependencies, involved_types, circular_dependencies,
                   complexity_metrics>>
    /\ UNCHANGED <<expansion_vars, nav_vars, matrix_vars, convert_vars, resolve_vars,
                 choice_vars, subtype_vars, distance_vars,
                 hierarchy_vars, constraint_vars>>

-----------------------------------------------------------------------------
(* f32 arithmetic.  An f32 value v is kept as the integer v * 2^27, which   *)
(* is exact for every value the path computes (all lie in [0, 16)).  The    *)
(* result of an operation is the exact result rounded to a 24-bit mantissa, *)
(* ties to even, as IEEE 754 single precision does.                         *)

\* The f32 literals of navigation.rs, times 2^27
F32_0_1 == 13421773

F32_0_2 == 26843546

F32_0_3 == 40265320

F32_0_4 == 53687092

F32_0_5 == 67108864

F32_0_7 == 93952408

F32_1_0 == 134217728

\* 2^24: below it every multiple of 2^-27 is an f32
F32MantissaLimit == 16777216

\* The spacing of f32 values around the exact value k
RECURSIVE F32Ulp(_, _)
F32Ulp(k, u) == IF k \div u < F32MantissaLimit THEN u ELSE F32Ulp(k, 2 * u)

\* Round to nearest, ties to even
F32Round(k) ==
    LET u == F32Ulp(k, 1)
        lo == (k \div u) * u
        r == k - lo
    IN  IF 2 * r < u THEN lo
        ELSE IF 2 * r > u THEN lo + u
        ELSE IF (lo \div u) % 2 = 0 THEN lo ELSE lo + u

\* a + b and (n as f32) * c in f32
F32Add(a, b) == F32Round(a + b)

F32MulInt(n, c) == F32Round(n * c)

\* f32::min
Min(a, b) == IF a < b THEN a ELSE b

-----------------------------------------------------------------------------
(* NavigationPath: navigation.rs *)

MaxSegments == 4

FunctionNames == {"exists", "where", "count"}

\* NavigationSegment::property
property == [segment_type |-> "Property", function_name |-> None,
             can_fail |-> FALSE, cost |-> F32_0_1]

\* NavigationSegment::choice_expansion
choice_expansion == [segment_type |-> "ChoiceExpansion", function_name |-> None,
                     can_fail |-> TRUE, cost |-> F32_0_3]

\* A cost table without the simple and the complex class
function_cost_flat(function_name) == F32_0_4

\* The cost table of NavigationSegment::function
function_cost(function_name) ==
    CASE function_name \in {"exists", "empty", "first", "last"} -> F32_0_2
      [] function_name \in {"where", "select", "all", "any"} -> F32_0_5
      [] OTHER -> F32_0_4

\* NavigationSegment::function
function(function_name) ==
    [segment_type |-> "Function", function_name |-> Some(function_name),
     can_fail |-> TRUE, cost |-> function_cost(function_name)]

NavSegments == {property, choice_expansion} \cup {function(f) : f \in FunctionNames}

\* A count that looks at the last segment only
CountSegmentsLast(segs, kind) ==
    IF Len(segs) = 0 THEN 0
    ELSE IF segs[Len(segs)].segment_type = kind THEN 1 ELSE 0

\* segments.iter().filter(|s| matches!(s.segment_type, kind)).count()
RECURSIVE CountSegmentsRec(_, _)
CountSegmentsRec(segs, kind) ==
    IF Len(segs) = 0 THEN 0
    ELSE CountSegmentsRec(SubSeq(segs, 1, Len(segs) - 1), kind)
         + (IF segs[Len(segs)].segment_type = kind THEN 1 ELSE 0)

CountSegments(segs, kind) == CountSegmentsRec(segs, kind)

\* PathComplexity::default
DefaultComplexity ==
    [segment_count |-> 0, depth |-> 0, choice_expansions |-> 0, function_calls |-> 0,
     complexity_score |-> 0, has_performance_concerns |-> FALSE]

\* NavigationPath::update_complexity
update_complexity(segs) ==
    LET segment_count == Len(segs)
        choice_expansions == CountSegments(segs, "ChoiceExpansion")
        function_calls == CountSegments(segs, "Function")
        complexity_score ==
            F32Add(F32Add(F32MulInt(segment_count, F32_0_1),
                          F32MulInt(choice_expansions, F32_0_3)),
                   F32MulInt(function_calls, F32_0_2))
    IN  [segment_count |-> segment_count,
         depth |-> segment_count,
         choice_expansions |-> choice_expansions,
         function_calls |-> function_calls,
         complexity_score |-> Min(complexity_score, F32_1_0),
         has_performance_concerns |-> complexity_score > F32_0_7]

\* PathComplexity::is_high_complexity
is_high_complexity(c) == c.complexity_score > F32_0_7

\* self.segments.iter().map(|s| s.cost).sum(): a left fold from 0.0
RECURSIVE SumCost(_)
SumCost(segs) ==
    IF Len(segs) = 0 THEN 0
    ELSE F32Add(SumCost(SubSeq(segs, 1, Len(segs) - 1)), segs[Len(segs)].cost)

\* NavigationPath::total_cost
total_cost(segs) == SumCost(segs)

\* NavigationPath::new
InitNav ==
    /\ segments = <<>>
    /\ complexity = DefaultComplexity

\* NavigationPath::add_segment
add_segment(segment) ==
    /\ Len(segments) < MaxSegments
    /\ segments' = Append(segments, segment)
    /\ complexity' = update_complexity(Append(segments, segment))
    /\ UNCHANGED <<expansion_vars, graph_vars, matrix_vars, convert_vars, resolve_vars,
                 choice_vars, subtype_vars, distance_vars,
                 hierarchy_vars, constraint_vars>>

-----------------------------------------------------------------------------
(* TypeCompatibilityMatrix: type_system.rs.  The struct has a constructor   *)
(* and queries only; its maps are public fields that a caller fills with    *)
(* papaya's HashMap::insert, one map at a time.                             *)

MatrixTypes == {"Integer", "Decimal"}

\* Names a query may ask about: the registered ones and one never registered
QueryTypes == MatrixTypes \cup {"String"}

ConversionTypes == {"Implicit", "Explicit", "Function", "Forbidden", "Conditional"}

MaxInserts == 3

\* The Vec<String> values of the quick-lookup maps: lists of distinct names
TargetLists ==
    {s \in UNION {[1..n -> MatrixTypes] : n \in 0..Cardinality(MatrixTypes)} :
        \A i, j \in 1..Len(s) : i # j => s[i] # s[j]}

\* ConversionInfo
ConversionInfo(type, conv_function, data_loss, rules, cost) ==
    [conversion_type |-> type, conversion_function |-> conv_function,
     data_loss_possible |-> data_loss, validation_rules |-> rules,
     performance_cost |-> cost]

\* TypeCompatibilityMatrix::new
InitMatrix ==
    /\ implicit_conversions = EmptyMap
    /\ explicit_conversions = EmptyMap
    /\ conversions = EmptyMap
    /\ reg_implicit = {}
    /\ n_inserts = 0

\* implicit_conversions.insert(from, targets); reg_implicit is the set of
\* promotions (from, to) registered this way and not replaced since.
insert_implicit(from, targets) ==
    /\ n_inserts < MaxInserts
    /\ implicit_conversions' = MapInsert(implicit_conversions, from, targets)
    /\ reg_implicit' = {p \in reg_implicit : p[1] # from}
                       \cup {<<from, targets[i]>> : i \in 1..Len(targets)}
    /\ n_inserts' = n_inserts + 1
    /\ UNCHANGED <<explicit_conversions, conversions>>
    /\ UNCHANGED <<expansion_vars, graph_vars, nav_vars, convert_vars, resolve_vars,
                 choice_vars, subtype_vars, distance_vars,
                 hierarchy_vars, constraint_vars>>

\* explicit_conversions.insert(from, targets)
insert_explicit(from, targets) ==
    /\ n_inserts < MaxInserts
    /\ explicit_conversions' = MapInsert(explicit_conversions, from, targets)
    /\ n_inserts' = n_inserts + 1
    /\ UNCHANGED <<implicit_conversions, conversions, reg_implicit>>
    /\ UNCHANGED <<expansion_vars, graph_vars, nav_vars, convert_vars, resolve_vars,
                 choice_vars, subtype_vars, distance_vars,
                 hierarchy_vars, constraint_vars>>

\* conversions.insert((from, to), info)
insert_conversion(from, to, type) ==
    /\ n_inserts < MaxInserts
    /\ conversions' = MapInsert(conversions, <<from, to>>,
                                ConversionInfo(type, None, FALSE, <<>>, 0))
    /\ n_inserts' = n_inserts + 1
    /\ UNCHANGED <<implicit_conversions, explicit_conversions, reg_implicit>>
    /\ UNCHANGED <<expansion_vars, graph_vars, nav_vars, convert_vars, resolve_vars,
                 choice_vars, subtype_vars, distance_vars,
                 hierarchy_vars, constraint_vars>>

\* A lookup that takes the target as the key
can_convert_implicitly_swapped(from_type, to_type) ==
    LET targets == MapGet(implicit_conversions, to_type)
    IN  IF targets # None THEN Contains(targets[1], from_type) ELSE FALSE

\* TypeCompatibilityMatrix::can_convert_implicitly
can_convert_implicitly(from_type, to_type) ==
    LET targets == MapGet(implicit_conversions, from_type)
    IN  IF targets # None THEN Contains(targets[1], to_type) ELSE FALSE

\* TypeCompatibilityMatrix::can_convert_explicitly
can_convert_explicitly(from_type, to_type) ==
    LET targets == MapGet(explicit_conversions, from_type)
    IN  IF targets # None THEN Contains(targets[1], to_type) ELSE FALSE

\* TypeCompatibilityMatrix::get_conversion_info
get_conversion_info(from_type, to_type) == MapGet(conversions, <<from_type, to_type>>)

\* TypeCompatibilityMatrix::find_conversion_path
find_conversion_path(from_type, to_type) ==
    IF can_convert_implicitly(from_type, to_type)
    THEN Some(<<from_type, to_type>>)
    ELSE None

-----------------------------------------------------------------------------
(* Strings of reflection.rs, as token sequences *)

Str(token) == <<token>>

\* format!("{namespace}.{name}")
Qualified(namespace, name) == namespace \o <<".">> \o name

\* str::contains
StrContains(hay, needle) ==
    \E i \in 0..(Len(hay) - Len(needle)) : SubSeq(hay, i + 1, i + Len(needle)) = needle

System == Str("System")

FHIR == Str("FHIR")

Integer == Str("Integer")

Decimal == Str("Decimal")

String == Str("String")

Boolean == Str("Boolean")

Date == Str("Date")

Time == Str("Time")

DateTime == <<"Date", "Time">>

Element == Str("Element")

BackboneElement == <<"Backbone", "Element">>

Resource == Str("Resource")

ElementDefinition == <<"Element", "Definition">>

DomainResource == <<"Domain", "Resource">>

SystemInteger == Qualified(System, Integer)

SystemDecimal == Qualified(System, Decimal)

SystemString == Qualified(System, String)

SystemBoolean == Qualified(System, Boolean)

SystemDate == Qualified(System, Date)

SystemDateTime == Qualified(System, DateTime)

-----------------------------------------------------------------------------
(* TypeReflectionInfo: reflection.rs.  The SimpleType and ClassInfo         *)
(* variants are modelled; the operations below never read a ClassInfo's     *)
(* elements.                                                                *)

\* TypeReflectionInfo::simple_type
simple_type(namespace, name) ==
    [kind |-> "SimpleType", namespace |-> namespace, name |-> name, base_type |-> None]

\* TypeReflectionInfo::simple_type_with_base
simple_type_with_base(namespace, name, base) ==
    [kind |-> "SimpleType", namespace |-> namespace, name |-> name,
     base_type |-> Some(base)]

\* TypeReflectionInfo::class_type
class_type(namespace, name) ==
    [kind |-> "ClassInfo", namespace |-> namespace, name |-> name, base_type |-> None]

\* TypeReflectionInfo::name
name(t) == t.name

\* TypeReflectionInfo::base_type
base_type(t) == t.base_type

\* TypeReflectionInfo::is_primitive
is_primitive(t) == t.kind = "SimpleType" /\ t.namespace = System

\* TypeReflectionInfo::is_fhir_type
is_fhir_type(t) == t.namespace = FHIR

\* TypeReflectionInfo::qualified_name
qualified_name(t) ==
    IF t.namespace = <<>> THEN t.name ELSE Qualified(t.namespace, t.name)

\* TypeReflectionInfo::is_system_type_compatible
is_system_type_compatible(from_type, to_type) ==
    \/ from_type = Integer /\ to_type = Decimal
    \/ from_type = Integer /\ to_type = String
    \/ from_type = Decimal /\ to_type = String
    \/ from_type = Boolean /\ to_type = String
    \/ from_type = Date /\ to_type = DateTime
    \/ from_type = DateTime /\ to_type = String
    \/ from_type = Date /\ to_type = String
    \/ from_type = Time /\ to_type = String

\* TypeReflectionInfo::is_compatible_with, on SimpleType and ClassInfo
is_compatible_with(self, other) ==
    IF self = other THEN TRUE
    ELSE IF self.base_type # None THEN self.base_type[1] = name(other)
    ELSE IF self.kind = "SimpleType" /\ other.kind = "SimpleType"
    THEN IF self.namespace = System /\ other.namespace = System
         THEN is_system_type_compatible(self.name, other.name)
         ELSE FALSE
    ELSE FALSE

\* The system type conversions of get_compatible_types
SystemConversions(self) ==
    IF ~is_primitive(self) THEN <<>>
    ELSE CASE name(self) = Integer -> <<SystemDecimal, SystemString>>
           [] name(self) = Decimal -> <<SystemString>>
           [] name(self) = Boolean -> <<SystemString>>
           [] name(self) = Date -> <<SystemDateTime, SystemString>>
           [] name(self) = DateTime -> <<SystemString>>
           [] name(self) = Time -> <<SystemString>>
           [] OTHER -> <<>>

\* TypeReflectionInfo::get_compatible_types
get_compatible_types(self) ==
    LET own == <<qualified_name(self)>>
        with_base == IF base_type(self) # None
                     THEN Append(own, base_type(self)[1]) ELSE own
        with_system == with_base \o SystemConversions(self)
    IN  IF ~Contains(with_system, SystemString)
        THEN Append(with_system, SystemString)
        ELSE with_system

\* A promotion table that lacks Integer -> Decimal
is_system_type_promotion_no_decimal(self, target_type) ==
    /\ is_primitive(self)
    /\ name(self) = Date /\ target_type = SystemDateTime

\* TypeReflectionInfo::is_system_type_promotion
is_system_type_promotion(self, target_type) ==
    /\ is_primitive(self)
    /\ \/ name(self) = Integer /\ target_type = SystemDecimal
       \/ name(self) = Date /\ target_type = SystemDateTime

\* TypeReflectionInfo::get_conversion_function
get_conversion_function(self, target_type) ==
    IF is_primitive(self) /\ target_type = SystemString THEN Some("toString")
    ELSE IF StrContains(target_type, Integer) THEN Some("toInteger")
    ELSE IF StrContains(target_type, Decimal) THEN Some("toDecimal")
    ELSE IF StrContains(target_type, Boolean) THEN Some("toBoolean")
    ELSE None

\* TypeReflectionInfo::conversion_may_lose_data
conversion_may_lose_data(self, target_type) ==
    \/ name(self) = Decimal /\ target_type = SystemInteger
    \/ name(self) = DateTime /\ target_type = SystemDate
    \/ name(self) = String /\ target_type # SystemString

\* TypeReflectionInfo::get_conversion_validation_rules (the rule ids)
get_conversion_validation_rules(self, target_type) ==
    IF StrContains(target_type, Integer) /\ name(self) = String
    THEN <<"string-to-integer">>
    ELSE <<>>

\* TypeReflectionInfo::get_conversion_cost
get_conversion_cost(self, target_type) ==
    IF name(self) = target_type THEN 0
    ELSE IF name(self) = Integer /\ target_type = SystemDecimal THEN F32_0_1
    ELSE IF target_type = SystemString THEN F32_0_2
    ELSE IF name(self) = String THEN F32_0_5
    ELSE F32_0_3

\* TypeReflectionInfo::can_convert_to
can_convert_to(self, target_type) ==
    IF Contains(get_compatible_types(self), target_type)
    THEN LET conversion_type ==
                 IF qualified_name(self) = target_type THEN "Implicit"
                 ELSE IF is_primitive(self) /\ target_type = SystemString
                 THEN "Function"
                 ELSE IF is_system_type_promotion(self, target_type) THEN "Implicit"
                 ELSE "Explicit"
         IN  ConversionInfo(conversion_type,
                            get_conversion_function(self, target_type),
                            conversion_may_lose_data(self, target_type),
                            get_conversion_validation_rules(self, target_type),
                            get_conversion_cost(self, target_type))
    ELSE ConversionInfo("Forbidden", None, FALSE, <<>>, 0)

-----------------------------------------------------------------------------
(* TypeReflectionInfo::resolve_choice_type and its strategies *)

ResolutionStrategies ==
    {"FirstMatch", "MostSpecific", "MostCommon", "ContextInferred", "ExplicitOnly",
     "ConfidenceBased"}

\* InferenceHint; confidence is an f64 in [0, 1], kept in tenths
InferenceHint(hint_type, suggested_type, confidence) ==
    [hint_type |-> hint_type, suggested_type |-> suggested_type,
     confidence |-> confidence]

\* PolymorphicContext: the fields resolve_choice_type reads
PolymorphicContext(available_types, inference_hints, resolution_strategy) ==
    [available_types |-> available_types, inference_hints |-> inference_hints,
     resolution_strategy |-> resolution_strategy]

\* slice::first().cloned()
First(s) == IF Len(s) = 0 THEN None ELSE Some(s[1])

\* for available in &context.available_types { if compatible.contains(available) .. }
RECURSIVE FirstCompatibleFrom(_, _, _)
FirstCompatibleFrom(available_types, compatible, i) ==
    IF i > Len(available_types) THEN None
    ELSE IF Contains(compatible, available_types[i]) THEN Some(available_types[i])
    ELSE FirstCompatibleFrom(available_types, compatible, i + 1)

\* TypeReflectionInfo::find_most_specific_type
RECURSIVE FirstNonBaseFrom(_, _)
FirstNonBaseFrom(available_types, i) ==
    IF i > Len(available_types) THEN First(available_types)
    ELSE IF /\ ~StrContains(available_types[i], Element)
            /\ ~StrContains(available_types[i], Str("Resource"))
    THEN Some(available_types[i])
    ELSE FirstNonBaseFrom(available_types, i + 1)

find_most_specific_type(available_types) == FirstNonBaseFrom(available_types, 1)

\* The loop shared by find_most_common_type and infer_from_context
RECURSIVE FirstHintOfKindFrom(_, _, _)
FirstHintOfKindFrom(context, hint_type, i) ==
    IF i > Len(context.inference_hints) THEN None
    ELSE LET hint == context.inference_hints[i]
         IN  IF /\ hint.hint_type = hint_type
                /\ Contains(context.available_types, hint.suggested_type)
             THEN Some(hint.suggested_type)
             ELSE FirstHintOfKindFrom(context, hint_type, i + 1)

\* A most-common search that reads the contextual hints instead
find_most_common_type_contextual(context) ==
    FirstHintOfKindFrom(context, "Contextual", 1)

\* TypeReflectionInfo::find_most_common_type
find_most_common_type(context) == FirstHintOfKindFrom(context, "Statistical", 1)

\* An inference that takes the first contextual hint, available or not
infer_from_context_unchecked(context) ==
    LET contextual == {i \in 1..Len(context.inference_hints) :
                          context.inference_hints[i].hint_type = "Contextual"}
    IN  IF contextual = {} THEN None
        ELSE Some(context.inference_hints[
                      CHOOSE i \in contextual : \A j \in contextual : i <= j
                  ].suggested_type)

\* TypeReflectionInfo::infer_from_context
infer_from_context(context) == FirstHintOfKindFrom(context, "Contextual", 1)

\* The loop of find_highest_confidence_type over the first n hints
RECURSIVE BestHintUpTo(_, _)
BestHintUpTo(context, n) ==
    IF n = 0 THEN [best_type |-> None, best_confidence |-> 0]
    ELSE LET best == BestHintUpTo(context, n - 1)
             hint == context.inference_hints[n]
         IN  IF /\ Contains(context.available_types, hint.suggested_type)
                /\ hint.confidence > best.best_confidence
             THEN [best_type |-> Some(hint.suggested_type),
                   best_confidence |-> hint.confidence]
             ELSE best

\* TypeReflectionInfo::find_highest_confidence_type
find_highest_confidence_type(context) ==
    BestHintUpTo(context, Len(context.inference_hints)).best_type

\* A dispatch in which ExplicitOnly falls back to the first available type
apply_strategy_explicit_first(context) ==
    CASE context.resolution_strategy \in {"FirstMatch", "ExplicitOnly"} ->
             First(context.available_types)
      [] context.resolution_strategy = "MostSpecific" ->
             find_most_specific_type(context.available_types)
      [] context.resolution_strategy = "MostCommon" -> find_most_common_type(context)
      [] context.resolution_strategy = "ContextInferred" -> infer_from_context(context)
      [] context.resolution_strategy = "ConfidenceBased" ->
             find_highest_confidence_type(context)

\* The match on context.resolution_strategy in resolve_choice_type
apply_strategy(context) ==
    CASE context.resolution_strategy = "FirstMatch" -> First(context.available_types)
      [] context.resolution_strategy = "MostSpecific" ->
             find_most_specific_type(context.available_types)
      [] context.resolution_strategy = "MostCommon" -> find_most_common_type(context)
      [] context.resolution_strategy = "ContextInferred" -> infer_from_context(context)
      [] context.resolution_strategy = "ExplicitOnly" -> None
      [] context.resolution_strategy = "ConfidenceBased" ->
             find_highest_confidence_type(context)

\* TypeReflectionInfo::resolve_choice_type
resolve_choice_type(self, context) ==
    LET type_name == qualified_name(self)
        compatible == get_compatible_types(self)
        available == FirstCompatibleFrom(context.available_types, compatible, 1)
    IN  IF Contains(context.available_types, type_name) THEN Some(type_name)
        ELSE IF available # None THEN available
        ELSE apply_strategy(context)

-----------------------------------------------------------------------------
(* Inputs of the reflection operations *)

\* All sequences over S of length at most n
SeqsUpTo(S, n) == UNION {[1..k -> S] : k \in 0..n}

ConvNamespaces == {System, FHIR, <<>>}

ConvNames == {Integer, Decimal, String, Date, DateTime, Element, BackboneElement}

ConvBases == {None, Some(Element), Some(SystemInteger), Some(SystemDate)}

\* The type descriptors can_convert_to is applied to
ConvTypes ==
    [kind : {"SimpleType", "ClassInfo"}, namespace : ConvNamespaces, name : ConvNames,
     base_type : ConvBases]

\* The target names asked for: every qualified name and every bare name
ConvTargets == {qualified_name(t) : t \in ConvTypes}

MaxAvailable == 2

MaxHints == 2

AvailableNames == {SystemInteger, SystemDecimal, SystemString, SystemBoolean, Element}

HintTypes == {"Statistical", "Contextual"}

\* Names a hint suggests; neither is compatible with System.Integer
SuggestedNames == {SystemBoolean, Element}

\* Confidence values, in tenths
ConfidenceLevels == {0, 5, 10}

InferenceHints ==
    {InferenceHint(k, t, c) : k \in HintTypes, t \in SuggestedNames,
                              c \in ConfidenceLevels}

\* The hints of one confidence
MidHints == {h \in InferenceHints : h.confidence = 5}

\* Hints of three of the five kinds, all of one confidence
KindHints ==
    {InferenceHint(k, t, 5) : k \in HintTypes \cup {"Constraint"}, t \in SuggestedNames}

\* The type descriptors resolve_choice_type is applied to
ResolveTypes ==
    {simple_type(System, Integer), simple_type_with_base(FHIR, BackboneElement, Element)}

\* Contexts that vary the available types: every name, hints of one confidence
PolymorphicContexts ==
    {PolymorphicContext(a, h, s) : a \in SeqsUpTo(AvailableNames, MaxAvailable),
                                   h \in SeqsUpTo(MidHints, MaxHints),
                                   s \in ResolutionStrategies}

\* Contexts that vary the hints: every hint, available types among the suggested
HintContexts ==
    {PolymorphicContext(a, h, s) : a \in SeqsUpTo(SuggestedNames, MaxAvailable),
                                   h \in SeqsUpTo(InferenceHints, MaxHints),
                                   s \in ResolutionStrategies}

\* Contexts that vary the kinds of the hints
KindContexts ==
    {PolymorphicContext(a, h, s) : a \in SeqsUpTo(SuggestedNames, MaxAvailable),
                                   h \in SeqsUpTo(KindHints, MaxHints),
                                   s \in ResolutionStrategies}

\* Names for the most-specific search: the two abstract roots, two concrete
\* types whose names contain a root's name, and a name that contains neither
SpecificNames == {Element, Resource, ElementDefinition, DomainResource, SystemBoolean}

\* Contexts that vary the available types among the root-like names
SpecificContexts ==
    {PolymorphicContext(a, <<>>, s) : a \in SeqsUpTo(SpecificNames, MaxAvailable),
                                      s \in ResolutionStrategies}

\* No call of can_convert_to yet
InitConvert ==
    /\ conv_target = None
    /\ conv_result = None

\* A call self.can_convert_to(target_type), its result kept
call_can_convert_to(target_type) ==
    /\ conv_result = None
    /\ conv_target' = Some(target_type)
    /\ conv_result' = Some(can_convert_to(conv_self, target_type))
    /\ UNCHANGED conv_self
    /\ UNCHANGED <<expansion_vars, graph_vars, nav_vars, matrix_vars, resolve_vars,
                 choice_vars, subtype_vars, distance_vars,
                 hierarchy_vars, constraint_vars>>

\* No call of resolve_choice_type yet
InitResolve ==
    /\ rc_result = None

\* A call self.resolve_choice_type(&context), its result kept
call_resolve_choice_type ==
    /\ rc_result = None
    /\ rc_result' = Some(resolve_choice_type(rc_self, rc_context))
    /\ UNCHANGED <<rc_self, rc_context>>
    /\ UNCHANGED <<expansion_vars, graph_vars, nav_vars, matrix_vars, convert_vars,
                 choice_vars, subtype_vars, distance_vars,
                 hierarchy_vars, constraint_vars>>

-----------------------------------------------------------------------------
(* ChoiceTypeDefinition: choice_types.rs *)

MaxOptions == 3

\* ChoiceTypeOption::new: the two fields the lookups read
ChoiceTypeOption(type_name, expanded_property) ==
    [type_name |-> type_name, expanded_property |-> expanded_property]

ChoiceTypeOptions ==
    {ChoiceTypeOption(t, p) : t \in ExpansionTypeNames, p \in ExpansionPropertyNames}

\* ChoiceTypeDefinition::new
InitChoice == possible_types = <<>>

\* ChoiceTypeDefinition::add_type_option
add_type_option(option) ==
    /\ Len(possible_types) < MaxOptions
    /\ possible_types' = Append(possible_types, option)
    /\ UNCHANGED <<expansion_vars, graph_vars, nav_vars, matrix_vars, convert_vars,
                   resolve_vars, subtype_vars, distance_vars,
                 hierarchy_vars, constraint_vars>>

\* possible_types.iter().find(|opt| opt.<field> == value), from position i
RECURSIVE FindOption(_, _, _)
FindOption(field, value, i) ==
    IF i > Len(possible_types) THEN None
    ELSE IF possible_types[i][field] = value THEN Some(possible_types[i])
    ELSE FindOption(field, value, i + 1)

\* ChoiceTypeDefinition::get_type_option
get_type_option(type_name) == FindOption("type_name", type_name, 1)

\* ChoiceTypeDefinition::get_expanded_properties
get_expanded_properties ==
    [i \in 1..Len(possible_types) |-> possible_types[i].expanded_property]

\* A test that looks at the first option only
is_expanded_property_first(property_name) ==
    /\ Len(possible_types) > 0
    /\ possible_types[1].expanded_property = property_name

\* ChoiceTypeDefinition::is_expanded_property
is_expanded_property(property_name) ==
    \E i \in 1..Len(possible_types) : possible_types[i].expanded_property = property_name

\* ChoiceTypeDefinition::get_type_from_expanded_property
get_type_from_expanded_property(property_name) ==
    LET found == FindOption("expanded_property", property_name, 1)
    IN  IF found = None THEN None ELSE Some(found[1].type_name)

-----------------------------------------------------------------------------
(* TypeReflectionInfo: inheritance queries, reflection.rs *)

\* TypeReflectionInfo::get_ancestors
get_ancestors(t) == IF base_type(t) # None THEN <<base_type(t)[1]>> ELSE <<>>

\* A subtype test that knows the type's own name only
is_subtype_of_name_only(t, parent_type) == name(t) = parent_type

\* TypeReflectionInfo::is_subtype_of
is_subtype_of(t, parent_type) ==
    IF name(t) = parent_type THEN TRUE
    ELSE IF base_type(t) # None /\ base_type(t)[1] = parent_type THEN TRUE
    ELSE FALSE

\* TypeReflectionInfo::common_supertype
common_supertype(self, other) ==
    IF self = other THEN Some(self)
    ELSE IF is_subtype_of(self, name(other)) THEN Some(other)
    ELSE IF is_subtype_of(other, name(self)) THEN Some(self)
    ELSE IF is_primitive(self) /\ is_primitive(other) THEN Some(simple_type(System, String))
    ELSE IF is_fhir_type(self) /\ is_fhir_type(other) THEN Some(simple_type(FHIR, Element))
    ELSE None

Custom == Str("Custom")

Dosage == Str("Dosage")

SubNamespaces == {System, FHIR, Custom}

SubNames == {Element, BackboneElement, Dosage, Integer, String}

\* Declared base types: none, the root, and a type that itself has a base
SubBases == {None, Some(Element), Some(BackboneElement)}

\* The type descriptors the inheritance queries are applied to
SubTypes ==
    [kind : {"SimpleType", "ClassInfo"}, namespace : SubNamespaces, name : SubNames,
     base_type : SubBases]

\* No inheritance query yet
InitSubtype == sub_result = None

IdleSubtype ==
    /\ sub_self = simple_type(System, Integer)
    /\ sub_other = simple_type(System, Integer)
    /\ InitSubtype

\* The calls self.is_subtype_of(other.name()), self.get_ancestors() and
\* self.common_supertype(&other), their results kept
call_common_supertype ==
    /\ sub_result = None
    /\ sub_result' = Some([is_subtype_of |-> is_subtype_of(sub_self, name(sub_other)),
                           get_ancestors |-> get_ancestors(sub_self),
                           common_supertype |-> common_supertype(sub_self, sub_other)])
    /\ UNCHANGED <<sub_self, sub_other>>
    /\ UNCHANGED <<expansion_vars, graph_vars, nav_vars, matrix_vars, convert_vars,
                   resolve_vars, choice_vars, distance_vars,
                 hierarchy_vars, constraint_vars>>

-----------------------------------------------------------------------------
(* type_system::TypeHierarchy: type_system.rs *)

MaxChain == 2

HierarchyNames == {"Patient", "DomainResource", "Resource", "USCorePatient"}

\* A name no hierarchy mentions
UnknownName == "Observation"

\* TypeHierarchy: the fields type_distance reads; they are public, so any
\* lists can be assigned
TypeHierarchies ==
    [type_name : HierarchyNames,
     ancestors : SeqsUpTo(HierarchyNames, MaxChain),
     descendants : SeqsUpTo(HierarchyNames, MaxChain)]

\* iter().position(|t| t == target_type), from position i
RECURSIVE Position(_, _, _)
Position(list, target_type, i) ==
    IF i > Len(list) THEN None
    ELSE IF list[i] = target_type THEN Some(i - 1)
    ELSE Position(list, target_type, i + 1)

\* A distance that looks at the descendants before the ancestors
type_distance_descendants_first(hierarchy, target_type) ==
    IF hierarchy.type_name = target_type THEN Some(0)
    ELSE IF Position(hierarchy.descendants, target_type, 1) # None
    THEN Some(Position(hierarchy.descendants, target_type, 1)[1] + 1)
    ELSE IF Position(hierarchy.ancestors, target_type, 1) # None
    THEN Some(Position(hierarchy.ancestors, target_type, 1)[1] + 1)
    ELSE None

\* TypeHierarchy::type_distance
type_distance(hierarchy, target_type) ==
    IF hierarchy.type_name = target_type THEN Some(0)
    ELSE IF Position(hierarchy.ancestors, target_type, 1) # None
    THEN Some(Position(hierarchy.ancestors, target_type, 1)[1] + 1)
    ELSE IF Position(hierarchy.descendants, target_type, 1) # None
    THEN Some(Position(hierarchy.descendants, target_type, 1)[1] + 1)
    ELSE None

\* No call of type_distance yet
InitDistance ==
    /\ dist_target = None
    /\ dist_result = None

IdleDistance ==
    /\ dist_hierarchy = [type_name |-> "Patient", ancestors |-> <<>>, descendants |-> <<>>]
    /\ InitDistance

\* A call hierarchy.type_distance(target_type), its result kept
call_type_distance(target_type) ==
    /\ dist_result = None
    /\ dist_target' = Some(target_type)
    /\ dist_result' = Some(type_distance(dist_hierarchy, target_type))
    /\ UNCHANGED dist_hierarchy
    /\ UNCHANGED <<expansion_vars, graph_vars, nav_vars, matrix_vars, convert_vars,
                   resolve_vars, choice_vars, subtype_vars,
                 hierarchy_vars, constraint_vars>>

-----------------------------------------------------------------------------
(* reflection::TypeHierarchy: reflection.rs *)

MaxHierarchyCalls == 4

\* TypeHierarchy::new("Patient")
InitHierarchy ==
    /\ root_type = "Patient"
    /\ parents = <<>>
    /\ children = <<>>
    /\ descendants = <<>>
    /\ parents_added = <<>>
    /\ children_added = <<>>

\* A push that does not look at the list
PushUnchecked(list, x) == Append(list, x)

\* if !list.contains(&x) { list.push(x) }
PushUnlessContained(list, x) == IF Contains(list, x) THEN list ELSE Append(list, x)

\* TypeHierarchy::add_parent
add_parent(parent) ==
    /\ Len(parents_added) + Len(children_added) < MaxHierarchyCalls
    /\ parents' = PushUnlessContained(parents, parent)
    /\ parents_added' = Append(parents_added, parent)
    /\ UNCHANGED <<root_type, children, descendants, children_added>>
    /\ UNCHANGED <<expansion_vars, graph_vars, nav_vars, matrix_vars, convert_vars,
                   resolve_vars, choice_vars, subtype_vars, distance_vars,
                   constraint_vars>>

\* TypeHierarchy::add_child
add_child(child) ==
    /\ Len(parents_added) + Len(children_added) < MaxHierarchyCalls
    /\ IF ~Contains(children, child)
       THEN /\ children' = Append(children, child)
            /\ descendants' = PushUnlessContained(descendants, child)
       ELSE UNCHANGED <<children, descendants>>
    /\ children_added' = Append(children_added, child)
    /\ UNCHANGED <<root_type, parents, parents_added>>
    /\ UNCHANGED <<expansion_vars, graph_vars, nav_vars, matrix_vars, convert_vars,
                   resolve_vars, choice_vars, subtype_vars, distance_vars,
                   constraint_vars>>

\* TypeHierarchy::is_ancestor
is_ancestor(type_name) == Contains(parents, type_name)

\* TypeHierarchy::is_descendant
is_descendant(type_name) == Contains(descendants, type_name)

-----------------------------------------------------------------------------
(* ConstraintInfo: constraints.rs *)

ConstraintKeys == {"", "pat-1", "obs-1"}

ConstraintSeverities == {"Error", "Warning", "Information"}

ConstraintHumans == {"", "Name is required"}

ConstraintExpressions == {"", "name.exists()", "value.exists()"}

\* No ConstraintInfo built yet
InitConstraint ==
    /\ constraint = None
    /\ validated = None

\* ConstraintInfo::new
ConstraintInfo_new(key, severity, human, expression) ==
    /\ constraint = None
    /\ constraint' = Some([key |-> key, severity |-> severity, human |-> human,
                           expression |-> expression, xpath |-> None, source |-> None])
    /\ UNCHANGED validated
    /\ UNCHANGED <<expansion_vars, graph_vars, nav_vars, matrix_vars, convert_vars,
                   resolve_vars, choice_vars, subtype_vars, distance_vars,
                   hierarchy_vars>>

\* ConstraintInfo::with_xpath
with_xpath(xpath) ==
    /\ constraint # None /\ validated = None
    /\ constraint[1].xpath = None
    /\ constraint' = Some([constraint[1] EXCEPT !.xpath = Some(xpath)])
    /\ UNCHANGED validated
    /\ UNCHANGED <<expansion_vars, graph_vars, nav_vars, matrix_vars, convert_vars,
                   resolve_vars, choice_vars, subtype_vars, distance_vars,
                   hierarchy_vars>>

\* ConstraintInfo::with_source
with_source(source) ==
    /\ constraint # None /\ validated = None
    /\ constraint[1].source = None
    /\ constraint' = Some([constraint[1] EXCEPT !.source = Some(source)])
    /\ UNCHANGED validated
    /\ UNCHANGED <<expansion_vars, graph_vars, nav_vars, matrix_vars, convert_vars,
                   resolve_vars, choice_vars, subtype_vars, distance_vars,
                   hierarchy_vars>>

\* String::is_empty
is_empty(str) == str = ""

\* A validation that does not look at the human text
validate_key_expression(c) ==
    IF is_empty(c.key) THEN [ok |-> FALSE, err |-> "Constraint key cannot be empty"]
    ELSE IF is_empty(c.expression)
    THEN [ok |-> FALSE, err |-> "Constraint expression cannot be empty"]
    ELSE [ok |-> TRUE, err |-> ""]

\* ConstraintInfo::validate: Ok(()) or Err(message)
validate(c) ==
    IF is_empty(c.key) THEN [ok |-> FALSE, err |-> "Constraint key cannot be empty"]
    ELSE IF is_empty(c.expression)
    THEN [ok |-> FALSE, err |-> "Constraint expression cannot be empty"]
    ELSE IF is_empty(c.human)
    THEN [ok |-> FALSE, err |-> "Constraint human description cannot be empty"]
    ELSE [ok |-> TRUE, err |-> ""]

\* A call constraint.validate(), its result kept
call_validate ==
    /\ constraint # None /\ validated = None
    /\ validated' = Some(validate(constraint[1]))
    /\ UNCHANGED constraint
    /\ UNCHANGED <<expansion_vars, graph_vars, nav_vars, matrix_vars, convert_vars,
                   resolve_vars, choice_vars, subtype_vars, distance_vars,
                   hierarchy_vars>>

-----------------------------------------------------------------------------
(* Specifications *)

\* The components a specification leaves alone
IdleConvert == conv_self = simple_type(System, Integer) /\ InitConvert

IdleResolve ==
    /\ rc_self = simple_type(System, Integer)
    /\ rc_context = PolymorphicContext(<<>>, <<>>, "FirstMatch")
    /\ InitResolve

\* Every component as its constructor leaves it
InitAll ==
    /\ InitExpansion /\ InitGraph /\ InitNav /\ InitMatrix /\ InitChoice /\ InitHierarchy
    /\ InitConstraint
    /\ IdleConvert /\ IdleResolve /\ IdleSubtype /\ IdleDistance

\* ChoiceExpansion
NextExpansion ==
    \E t \in ExpansionTypeNames, p \in ExpansionPropertyNames : add_mapping(t, p)

SpecExpansion == InitAll /\ [][NextExpansion]_vars

\* DependencyGraph
NextGraph ==
    \/ \E s, t \in GraphTypes : add_dependency(TypeDependency(s, t))
    \/ detect_cycles
    \/ compute_resolution_order

SpecGraph == InitAll /\ [][NextGraph]_vars

\* NavigationPath
NextNav == \E segment \in NavSegments : add_segment(segment)

SpecNav == InitAll /\ [][NextNav]_vars

\* TypeCompatibilityMatrix
NextMatrix ==
    \/ \E from \in MatrixTypes, targets \in TargetLists : insert_implicit(from, targets)
    \/ \E from \in MatrixTypes, targets \in TargetLists : insert_explicit(from, targets)
    \/ \E from, to \in MatrixTypes, type \in ConversionTypes :
           insert_conversion(from, to, type)

SpecMatrix == InitAll /\ [][NextMatrix]_vars

\* can_convert_to on every type descriptor of ConvTypes
InitConvertSpec ==
    /\ InitExpansion /\ InitGraph /\ InitNav /\ InitMatrix /\ InitChoice /\ InitHierarchy
    /\ InitConstraint
    /\ IdleSubtype /\ IdleDistance /\ IdleResolve
    /\ conv_self \in ConvTypes
    /\ InitConvert

NextConvert == \E target_type \in ConvTargets : call_can_convert_to(target_type)

SpecConvert == InitConvertSpec /\ [][NextConvert]_vars

\* resolve_choice_type over many lists of available types and few hints
InitResolveSpec ==
    /\ InitExpansion /\ InitGraph /\ InitNav /\ InitMatrix /\ InitChoice /\ InitHierarchy
    /\ InitConstraint
    /\ IdleSubtype /\ IdleDistance /\ IdleConvert
    /\ rc_self \in ResolveTypes
    /\ rc_context \in PolymorphicContexts
    /\ InitResolve

NextResolve == call_resolve_choice_type

SpecResolve == InitResolveSpec /\ [][NextResolve]_vars

\* resolve_choice_type over few lists of available types and many hints
InitHintsSpec ==
    /\ InitExpansion /\ InitGraph /\ InitNav /\ InitMatrix /\ InitChoice /\ InitHierarchy
    /\ InitConstraint
    /\ IdleSubtype /\ IdleDistance /\ IdleConvert
    /\ rc_self \in ResolveTypes
    /\ rc_context \in HintContexts
    /\ InitResolve

SpecHints == InitHintsSpec /\ [][NextResolve]_vars

\* resolve_choice_type over hints of several kinds
InitKindsSpec ==
    /\ InitExpansion /\ InitGraph /\ InitNav /\ InitMatrix /\ InitChoice /\ InitHierarchy
    /\ InitConstraint
    /\ IdleSubtype /\ IdleDistance /\ IdleConvert
    /\ rc_self \in ResolveTypes
    /\ rc_context \in KindContexts
    /\ InitResolve

SpecKinds == InitKindsSpec /\ [][NextResolve]_vars

\* resolve_choice_type over available types with root-like names
InitSpecificSpec ==
    /\ InitExpansion /\ InitGraph /\ InitNav /\ InitMatrix /\ InitChoice /\ InitHierarchy
    /\ InitConstraint
    /\ IdleSubtype /\ IdleDistance /\ IdleConvert
    /\ rc_self \in ResolveTypes
    /\ rc_context \in SpecificContexts
    /\ InitResolve

SpecSpecific == InitSpecificSpec /\ [][NextResolve]_vars

\* ChoiceTypeDefinition
NextChoice == \E option \in ChoiceTypeOptions : add_type_option(option)

SpecChoice == InitAll /\ [][NextChoice]_vars

\* The inheritance queries on every pair of type descriptors of SubTypes
InitSubtypeSpec ==
    /\ InitExpansion /\ InitGraph /\ InitNav /\ InitMatrix /\ InitChoice /\ InitHierarchy
    /\ InitConstraint
    /\ IdleConvert /\ IdleResolve /\ IdleDistance
    /\ sub_self \in SubTypes
    /\ sub_other \in SubTypes
    /\ InitSubtype

NextSubtype == call_common_supertype

SpecSubtype == InitSubtypeSpec /\ [][NextSubtype]_vars

\* type_distance on every hierarchy of TypeHierarchies
InitDistanceSpec ==
    /\ InitExpansion /\ InitGraph /\ InitNav /\ InitMatrix /\ InitChoice /\ InitHierarchy
    /\ InitConstraint
    /\ IdleConvert /\ IdleResolve /\ IdleSubtype
    /\ dist_hierarchy \in TypeHierarchies
    /\ InitDistance

NextDistance ==
    \E target_type \in HierarchyNames \cup {UnknownName} : call_type_distance(target_type)

SpecDistance == InitDistanceSpec /\ [][NextDistance]_vars

\* reflection::TypeHierarchy
NextHierarchy ==
    \/ \E parent \in HierarchyNames : add_parent(parent)
    \/ \E child \in HierarchyNames : add_child(child)

SpecHierarchy == InitAll /\ [][NextHierarchy]_vars

\* ConstraintInfo
NextConstraint ==
    \/ \E key \in ConstraintKeys, severity \in ConstraintSeverities,
          human \in ConstraintHumans, expression \in ConstraintExpressions :
           ConstraintInfo_new(key, severity, human, expression)
    \/ with_xpath("f:name")
    \/ with_source("http://hl7.org/fhir/StructureDefinition/Patient")
    \/ call_validate

SpecConstraint == InitAll /\ [][NextConstraint]_vars

-----------------------------------------------------------------------------
(* Properties *)

\* Candidate filtering finds nothing: no available type is the type itself,
\* its base type, one of its promotions or System.String.
NoCandidate(self, context) ==
    \A i \in 1..Len(context.available_types) :
        ~Contains(get_compatible_types(self), context.available_types[i])

\* The first member of the list `priority` that occurs in `available`
RECURSIVE FirstByPriorityFrom(_, _, _)
FirstByPriorityFrom(priority, available, i) ==
    IF i > Len(priority) THEN None
    ELSE IF Contains(available, priority[i]) THEN Some(priority[i])
    ELSE FirstByPriorityFrom(priority, available, i + 1)

\* The indices of the hints that suggest an available type
QualifyingHints(context) ==
    {i \in 1..Len(context.inference_hints) :
        Contains(context.available_types, context.inference_hints[i].suggested_type)}

\* The earliest qualifying hint among those of the highest confidence
HighestConfidenceHint(context) ==
    CHOOSE i \in QualifyingHints(context) :
        \A j \in QualifyingHints(context) :
            \/ context.inference_hints[j].confidence
                   < context.inference_hints[i].confidence
            \/ /\ context.inference_hints[j].confidence
                      = context.inference_hints[i].confidence
               /\ i <= j

(* C1: after any sequence of add_mapping calls, reused names included, every
   pair ever added round-trips (expand_to_type(type) = property and
   get_base_type(property) = type) and the two maps are inverses of each
   other. *)
C1_RoundTripAll ==
    /\ \A pair \in added :
           /\ expand_to_type(pair[1]) = Some(pair[2])
           /\ get_base_type(pair[2]) = Some(pair[1])
    /\ \A t \in DOMAIN forward_mappings :
           get_base_type(forward_mappings[t]) = Some(t)
    /\ \A q \in DOMAIN reverse_mappings :
           expand_to_type(reverse_mappings[q]) = Some(q)

(* C2: on the graph with exactly the edges A->B and B->A, detect_cycles
   leaves exactly one cycle, and it contains A and B. *)
C2_OneCycle ==
    (/\ graph_op = "detect_cycles"
     /\ dependencies = <<TypeDependency("A", "B"), TypeDependency("B", "A")>>)
    => /\ Len(circular_dependencies) = 1
       /\ {circular_dependencies[1].cycle_types[i] : i \in 1..2} = {"A", "B"}

(* C3: an add_segment of a Property, ChoiceExpansion or Function segment
   never decreases complexity.complexity_score and never decreases
   total_cost(). *)
C3_Monotone ==
    [][(\E segment \in NavSegments : add_segment(segment))
       => /\ complexity'.complexity_score >= complexity.complexity_score
          /\ total_cost(segments') >= total_cost(segments)]_vars

\* C3: a path of several segments whose raw score has passed the clamp at 1.0
C3_Witness ==
    /\ Len(segments) >= 3
    /\ complexity.choice_expansions >= 1
    /\ complexity.function_calls >= 1
    /\ complexity.complexity_score = F32_1_0
    /\ total_cost(segments) > F32_0_7

(* C4: conversions are directional.  When A -> B is a registered implicit
   conversion and B -> A is not, can_convert_implicitly(B, A) is false; a
   pair that is not registered is answered with false (get_conversion_info:
   absent), for names the matrix has never seen as well; and Integer is
   compatible with and promotes to Decimal while Decimal is not compatible
   with and does not promote to Integer. *)
C4_Directional ==
    /\ \A a, b \in QueryTypes :
           (<<a, b>> \in reg_implicit /\ <<b, a>> \notin reg_implicit)
           => (can_convert_implicitly(a, b) /\ ~can_convert_implicitly(b, a))
    /\ \A a, b \in QueryTypes :
           /\ <<a, b>> \notin reg_implicit
              => (~can_convert_implicitly(a, b) /\ find_conversion_path(a, b) = None)
           /\ <<a, b>> \notin DOMAIN conversions => get_conversion_info(a, b) = None
    /\ is_compatible_with(simple_type(System, Integer), simple_type(System, Decimal))
    /\ ~is_compatible_with(simple_type(System, Decimal), simple_type(System, Integer))
    /\ is_system_type_promotion(simple_type(System, Integer), SystemDecimal)
    /\ ~is_system_type_promotion(simple_type(System, Decimal), SystemInteger)

\* C4: Integer -> Decimal is registered, Decimal has a target list of its own,
\* and Decimal -> Integer is not registered
C4_Witness ==
    /\ <<"Integer", "Decimal">> \in reg_implicit
    /\ <<"Decimal", "Integer">> \notin reg_implicit
    /\ "Decimal" \in DOMAIN implicit_conversions
    /\ can_convert_implicitly("Integer", "Decimal")
    /\ ~can_convert_implicitly("Decimal", "Integer")

\* The canonical System.Integer, whatever base type it declares
IsSystemInteger(t) == t.kind = "SimpleType" /\ t.namespace = System /\ t.name = Integer

(* C5: System.Integer.can_convert_to gives Implicit without data loss for
   System.Decimal, Function (toString) without data loss for System.String,
   and Forbidden for System.Date, which is not the type itself, a declared
   base type, a promotion or String. *)
C5_IntegerConversions ==
    (conv_result # None /\ IsSystemInteger(conv_self))
    => /\ conv_target = Some(SystemDecimal)
          => /\ conv_result[1].conversion_type = "Implicit"
             /\ ~conv_result[1].data_loss_possible
       /\ conv_target = Some(SystemString)
          => /\ conv_result[1].conversion_type = "Function"
             /\ conv_result[1].conversion_function = Some("toString")
             /\ ~conv_result[1].data_loss_possible
       /\ (conv_target = Some(SystemDate) /\ conv_self.base_type # Some(SystemDate))
          => conv_result[1].conversion_type = "Forbidden"

\* C5: System.Integer has been converted to System.Decimal
C5_Witness ==
    /\ conv_self = simple_type(System, Integer)
    /\ conv_target = Some(SystemDecimal)
    /\ conv_result # None
    /\ conv_result[1].conversion_type = "Implicit"

(* C6: for every simple or class type T, T.can_convert_to(T.qualified_name())
   is Implicit with performance_cost 0. *)
C6_SelfConversionFree ==
    (conv_result # None /\ conv_target = Some(qualified_name(conv_self)))
    => /\ conv_result[1].conversion_type = "Implicit"
       /\ conv_result[1].performance_cost = 0

(* C7: can_convert_to reports data_loss_possible for System.Decimal ->
   System.Integer, for System.DateTime -> System.Date and for System.String ->
   any target other than System.String. *)
C7_DataLossFlag ==
    conv_result # None
    => /\ (conv_self = simple_type(System, Decimal)
           /\ conv_target = Some(SystemInteger))
          => conv_result[1].data_loss_possible
       /\ (conv_self = simple_type(System, DateTime)
           /\ conv_target = Some(SystemDate))
          => conv_result[1].data_loss_possible
       /\ (conv_self = simple_type(System, String)
           /\ conv_target # Some(SystemString))
          => conv_result[1].data_loss_possible

(* C8: when some candidate is available, resolve_choice_type returns the
   first member of the priority list [the type itself, its base type, its
   promotions, System.String] that occurs in available_types, whatever the
   order of available_types. *)
C8_PriorityOrder ==
    (rc_result # None /\ ~NoCandidate(rc_self, rc_context))
    => rc_result[1] = FirstByPriorityFrom(get_compatible_types(rc_self),
                                          rc_context.available_types, 1)

(* C9: when candidate filtering finds nothing and the strategy is
   ConfidenceBased, the result is the suggested type of the earliest
   qualifying hint of the highest confidence, and it is absent only when no
   hint qualifies. *)
C9_HighestConfidence ==
    (/\ rc_result # None
     /\ rc_context.resolution_strategy = "ConfidenceBased"
     /\ NoCandidate(rc_self, rc_context))
    => rc_result[1] =
           IF QualifyingHints(rc_context) = {} THEN None
           ELSE Some(rc_context.inference_hints[HighestConfidenceHint(rc_context)]
                         .suggested_type)

(* C10: when candidate filtering finds nothing and the strategy is
   ExplicitOnly, resolve_choice_type returns absent, for every list of
   available types and every list of hints. *)
C10_ExplicitOnlyAbsent ==
    (/\ rc_result # None
     /\ rc_context.resolution_strategy = "ExplicitOnly"
     /\ NoCandidate(rc_self, rc_context))
    => rc_result[1] = None

\* C10: ExplicitOnly has answered absent although a hint suggests an
\* available type
C10_Witness ==
    /\ rc_result # None
    /\ rc_context.resolution_strategy = "ExplicitOnly"
    /\ NoCandidate(rc_self, rc_context)
    /\ Len(rc_context.available_types) >= 2
    /\ QualifyingHints(rc_context) # {}
    /\ rc_result[1] = None

\* The indices of the hints of one kind that suggest an available type
HintsOfKind(context, hint_type) ==
    {i \in QualifyingHints(context) : context.inference_hints[i].hint_type = hint_type}

\* The suggestion of the earliest hint of the kind, absent when there is none
FirstOfKind(context, hint_type) ==
    IF HintsOfKind(context, hint_type) = {} THEN None
    ELSE Some(context.inference_hints[
                  CHOOSE i \in HintsOfKind(context, hint_type) :
                      \A j \in HintsOfKind(context, hint_type) : i <= j].suggested_type)

(* C11: when candidate filtering finds nothing, MostCommon returns the
   suggestion of the first Statistical hint that suggests an available type
   and ContextInferred that of the first such Contextual hint; hints of
   another kind or suggesting an unavailable type are ignored, and the result
   is absent when no hint qualifies. *)
C11_FirstHintOfKind ==
    (rc_result # None /\ NoCandidate(rc_self, rc_context))
    => /\ rc_context.resolution_strategy = "MostCommon"
          => rc_result[1] = FirstOfKind(rc_context, "Statistical")
       /\ rc_context.resolution_strategy = "ContextInferred"
          => rc_result[1] = FirstOfKind(rc_context, "Contextual")

\* C11: MostCommon has passed over a qualifying hint of another kind and
\* taken the Statistical hint behind it
C11_Witness ==
    /\ rc_result # None
    /\ NoCandidate(rc_self, rc_context)
    /\ rc_context.resolution_strategy = "MostCommon"
    /\ Len(rc_context.inference_hints) = 2
    /\ 1 \in QualifyingHints(rc_context)
    /\ rc_context.inference_hints[1].hint_type # "Statistical"
    /\ rc_context.inference_hints[2].hint_type = "Statistical"
    /\ rc_context.inference_hints[2].suggested_type
           # rc_context.inference_hints[1].suggested_type
    /\ rc_result[1] = Some(rc_context.inference_hints[2].suggested_type)

\* The known abstract root types
AbstractRoots == {Element, Resource}

\* The positions of the available types that are not abstract roots
ConcretePositions(available_types) ==
    {i \in 1..Len(available_types) : available_types[i] \notin AbstractRoots}

(* C12: when candidate filtering finds nothing, MostSpecific returns the
   first available type that is not an abstract root (Element, Resource),
   the first entry when every entry is a root, and absent only for an empty
   list; a name that merely contains a root's name, such as
   ElementDefinition or DomainResource, is not a root. *)
C12_MostSpecific ==
    (/\ rc_result # None
     /\ rc_context.resolution_strategy = "MostSpecific"
     /\ NoCandidate(rc_self, rc_context))
    => LET available_types == rc_context.available_types
           concrete == ConcretePositions(available_types)
       IN  rc_result[1] =
               IF available_types = <<>> THEN None
               ELSE IF concrete = {} THEN Some(available_types[1])
               ELSE Some(available_types[CHOOSE i \in concrete :
                                             \A j \in concrete : i <= j])

\* The number of segments of a kind, counted over the positions of the path
SegmentsOfKind(kind) ==
    Cardinality({i \in 1..Len(segments) : segments[i].segment_type = kind})

\* Ten times the score of the formula, in exact arithmetic:
\* 10 * (0.1 * segment_count + 0.3 * choice_expansions + 0.2 * function_calls)
ScoreTenths ==
    Len(segments) + 3 * SegmentsOfKind("ChoiceExpansion") + 2 * SegmentsOfKind("Function")

\* |a - b|
AbsDiff(a, b) == IF a < b THEN b - a ELSE a - b

(* C13: after any sequence of add_segment calls, segment_count and depth are
   the number of segments, choice_expansions and function_calls the numbers
   of ChoiceExpansion and Function segments, complexity_score is
   min(1, 0.1*segment_count + 0.3*choice_expansions + 0.2*function_calls)
   (to within four units in the last place of 1.0) and lies in [0, 1], and
   has_performance_concerns is true exactly when that score exceeds 0.7 and
   agrees with is_high_complexity(). *)
C13_ComplexityFormula ==
    /\ complexity.segment_count = Len(segments)
    /\ complexity.depth = Len(segments)
    /\ complexity.choice_expansions = SegmentsOfKind("ChoiceExpansion")
    /\ complexity.function_calls = SegmentsOfKind("Function")
    /\ AbsDiff(10 * complexity.complexity_score, Min(10, ScoreTenths) * F32_1_0)
           <= 10 * 8 * (F32_1_0 \div F32MantissaLimit)
    /\ complexity.complexity_score >= 0
    /\ complexity.complexity_score <= F32_1_0
    /\ complexity.has_performance_concerns <=> ScoreTenths > 7
    /\ complexity.has_performance_concerns <=> is_high_complexity(complexity)

\* The function names the cost table lists, and two it does not
SimpleFunctions == {"exists", "empty", "first", "last"}

ComplexFunctions == {"where", "select", "all", "any"}

OtherFunctions == {"count", "toString"}

\* t tenths in units of 2^-27, rounded down
TenthsExact(t) == (t \div 10) * F32_1_0 + ((t % 10) * F32_1_0) \div 10

\* v is t tenths to within one unit in the last place of 1.0
IsTenths(v, t) == AbsDiff(v, TenthsExact(t)) <= F32_1_0 \div F32MantissaLimit

\* The cost of a segment by the table, in tenths
CostTenths(segment) ==
    CASE segment.segment_type = "Property" -> 1
      [] segment.segment_type = "ChoiceExpansion" -> 3
      [] segment.segment_type = "Function" ->
             IF segment.function_name[1] \in SimpleFunctions THEN 2
             ELSE IF segment.function_name[1] \in ComplexFunctions THEN 5
             ELSE 4

\* The sum of the table costs of the first n segments, in tenths
RECURSIVE SumTenths(_)
SumTenths(n) == IF n = 0 THEN 0 ELSE SumTenths(n - 1) + CostTenths(segments[n])

(* C14: a Property segment costs 0.1 and cannot fail; a ChoiceExpansion
   segment costs 0.3 and can fail; a Function segment can fail and costs 0.2
   for exists/empty/first/last, 0.5 for where/select/all/any and 0.4 for any
   other name; total_cost() is the sum of the segments' costs (to within
   rounding), and 0 for the empty path. *)
C14_SegmentCosts ==
    /\ IsTenths(property.cost, 1) /\ ~property.can_fail
    /\ IsTenths(choice_expansion.cost, 3) /\ choice_expansion.can_fail
    /\ \A f \in SimpleFunctions : IsTenths(function(f).cost, 2) /\ function(f).can_fail
    /\ \A f \in ComplexFunctions : IsTenths(function(f).cost, 5) /\ function(f).can_fail
    /\ \A f \in OtherFunctions : IsTenths(function(f).cost, 4) /\ function(f).can_fail
    /\ \A i \in 1..Len(segments) :
           /\ IsTenths(segments[i].cost, CostTenths(segments[i]))
           /\ segments[i].can_fail <=> segments[i].segment_type # "Property"
    /\ segments = <<>> => total_cost(segments) = 0
    /\ AbsDiff(total_cost(segments), TenthsExact(SumTenths(Len(segments))))
           <= 16 * (F32_1_0 \div F32MantissaLimit)

\* C14: a path holding a segment of every cost class
C14_Witness ==
    /\ {CostTenths(segments[i]) : i \in 1..Len(segments)} = {1, 2, 3, 5}
    /\ total_cost(segments) > F32_1_0

\* The positions of the options that expand to a property
OptionsFor(property_name) ==
    {i \in 1..Len(possible_types) : possible_types[i].expanded_property = property_name}

(* C15: for every property name p, is_expanded_property(p) is true exactly
   when some option has expanded_property p;
   get_type_from_expanded_property(p) is present exactly then and is the
   type_name of an option that expands to p (of the option, when there is
   one only), and absent otherwise; get_expanded_properties() lists the
   options' properties in insertion order. *)
C15_ExpandedLookups ==
    /\ \A p \in ExpansionPropertyNames :
           /\ is_expanded_property(p) <=> OptionsFor(p) # {}
           /\ get_type_from_expanded_property(p) # None <=> is_expanded_property(p)
           /\ get_type_from_expanded_property(p) # None
              => \E i \in OptionsFor(p) :
                     get_type_from_expanded_property(p) = Some(possible_types[i].type_name)
    /\ Len(get_expanded_properties) = Len(possible_types)
    /\ \A i \in 1..Len(possible_types) :
           get_expanded_properties[i] = possible_types[i].expanded_property

\* C15: the options (string, valueString), (boolean, valueBoolean): valueString
\* is an expanded property and valueInteger has no type
C15_Witness ==
    /\ possible_types = <<ChoiceTypeOption("string", "valueString"),
                           ChoiceTypeOption("boolean", "valueBoolean")>>
    /\ is_expanded_property("valueString")
    /\ get_type_from_expanded_property("valueBoolean") = Some("boolean")
    /\ get_type_from_expanded_property("valueInteger") = None

(* C16: in every ChoiceTypeDefinition built by add_type_option calls, no two
   options share an expanded property name. *)
C16_UniqueProperties ==
    \A i, j \in 1..Len(possible_types) :
        possible_types[i].expanded_property = possible_types[j].expanded_property
        => i = j

\* X is T's name or T's declared base type
NameOrBase(t, parent_type) ==
    name(t) = parent_type \/ base_type(t) = Some(parent_type)

(* C17: T.is_subtype_of(X) is true exactly when X is T's name or T's declared
   base type.  The check is single-hop: for C with base B and B with base A,
   C.is_subtype_of(A) is false; a base type is not a subtype of a type
   derived from it; get_ancestors() is the declared base type alone, or
   empty. *)
C17_SingleHopSubtype ==
    sub_result # None
    => /\ \A parent_type \in SubNames \cup {qualified_name(sub_self)} :
              is_subtype_of(sub_self, parent_type) <=> NameOrBase(sub_self, parent_type)
       /\ sub_result[1].is_subtype_of <=> NameOrBase(sub_self, name(sub_other))
       /\ (/\ base_type(sub_self) = Some(name(sub_other))
           /\ base_type(sub_other) # None
           /\ ~NameOrBase(sub_self, base_type(sub_other)[1]))
          => ~is_subtype_of(sub_self, base_type(sub_other)[1])
       /\ (/\ base_type(sub_other) = Some(name(sub_self))
           /\ ~NameOrBase(sub_self, name(sub_other)))
          => ~sub_result[1].is_subtype_of
       /\ Len(sub_result[1].get_ancestors) <= 1
       /\ sub_result[1].get_ancestors =
              (IF base_type(sub_self) = None THEN <<>> ELSE <<base_type(sub_self)[1]>>)

\* C17: Dosage with base BackboneElement, BackboneElement with base Element:
\* Dosage is a subtype of BackboneElement and not of Element
C17_Witness ==
    /\ sub_result # None
    /\ sub_self = simple_type_with_base(FHIR, Dosage, BackboneElement)
    /\ sub_other = simple_type_with_base(FHIR, BackboneElement, Element)
    /\ sub_result[1].is_subtype_of
    /\ ~is_subtype_of(sub_self, Element)
    /\ ~is_subtype_of(sub_other, Dosage)
    /\ sub_result[1].get_ancestors = <<BackboneElement>>

(* C18: common_supertype(a, b) is a when a equals b; otherwise the ancestor
   when one is a single-hop subtype of the other, in either direction;
   otherwise System.String when both are primitive; otherwise the root
   Element type when both are class types of the same namespace, whatever
   the namespace; otherwise absent. *)
C18_CommonSupertype ==
    sub_result # None
    => sub_result[1].common_supertype =
           IF sub_self = sub_other THEN Some(sub_self)
           ELSE IF NameOrBase(sub_self, name(sub_other)) THEN Some(sub_other)
           ELSE IF NameOrBase(sub_other, name(sub_self)) THEN Some(sub_self)
           ELSE IF is_primitive(sub_self) /\ is_primitive(sub_other)
           THEN Some(simple_type(System, String))
           ELSE IF /\ sub_self.kind = "ClassInfo" /\ sub_other.kind = "ClassInfo"
                   /\ sub_self.namespace = sub_other.namespace
           THEN Some(simple_type(FHIR, Element))
           ELSE None

\* The positions, counted from 1, at which a list holds a name
PositionsOf(list, target_type) == {i \in 1..Len(list) : list[i] = target_type}

\* The least element of a non-empty set of numbers
Least(S) == CHOOSE i \in S : \A j \in S : i <= j

(* C19: type_distance(target) is 0 when target is the hierarchy's own
   type_name; otherwise its position + 1 in the ancestors list; otherwise its
   position + 1 in the descendants list; otherwise absent.  The checks are
   tried in that order, so an earlier one is never overridden by a later
   list. *)
C19_TypeDistance ==
    dist_result # None
    => LET target_type == dist_target[1]
           up == PositionsOf(dist_hierarchy.ancestors, target_type)
           down == PositionsOf(dist_hierarchy.descendants, target_type)
       IN  dist_result[1] =
               IF target_type = dist_hierarchy.type_name THEN Some(0)
               ELSE IF up # {} THEN Some(Least(up))
               ELSE IF down # {} THEN Some(Least(down))
               ELSE None

\* C19: the target is the second ancestor and the first descendant, and the
\* distance is the ancestor's
C19_Witness ==
    /\ dist_result = Some(Some(2))
    /\ dist_target # Some(dist_hierarchy.type_name)
    /\ Len(dist_hierarchy.ancestors) = 2
    /\ dist_hierarchy.ancestors[2] = dist_target[1]
    /\ dist_hierarchy.ancestors[1] # dist_target[1]
    /\ Len(dist_hierarchy.descendants) >= 1
    /\ dist_hierarchy.descendants[1] = dist_target[1]

\* The source and target types of the edges added so far
EdgeTypes ==
    {dependencies[i].source_type : i \in 1..Len(dependencies)}
        \cup {dependencies[i].target_type : i \in 1..Len(dependencies)}

\* The graph's lists and metrics are in step
GraphInStep ==
    /\ \A i, j \in 1..Len(involved_types) :
           involved_types[i] = involved_types[j] => i = j
    /\ {involved_types[i] : i \in 1..Len(involved_types)} = EdgeTypes
    /\ complexity_metrics.node_count = Len(involved_types)
    /\ complexity_metrics.edge_count = Len(dependencies)
    /\ Len(involved_types) > 0
       => complexity_metrics.average_fan_out[1] * Len(involved_types)
              = complexity_metrics.average_fan_out[2] * Len(dependencies)

(* C20: after any sequence of add_dependency calls from
   DependencyGraph::new(), involved_types has no duplicates and is the set
   of source and target types of the added edges, every add_dependency
   appends its edge to dependencies (repeated edges are kept, in insertion
   order), and node_count = |involved_types|, edge_count = |dependencies|,
   average_fan_out = edge_count / node_count. *)
C20_GraphBookkeeping ==
    /\ []GraphInStep
    /\ [][\A s, t \in GraphTypes :
              add_dependency(TypeDependency(s, t))
              => dependencies' = Append(dependencies, TypeDependency(s, t))]_vars

\* C20: an edge added twice and a self-loop on two nodes
C20_Witness ==
    /\ Len(dependencies) = 3
    /\ dependencies[1] = dependencies[2]
    /\ dependencies[3].source_type = dependencies[3].target_type
    /\ Len(involved_types) = 2
    /\ complexity_metrics.average_fan_out = Ratio(3, 2)

\* The positions of the edges that have a reverse edge in dependencies
EdgesWithReverse ==
    {i \in 1..Len(dependencies) :
        \E j \in 1..Len(dependencies) :
            /\ dependencies[j].source_type = dependencies[i].target_type
            /\ dependencies[j].target_type = dependencies[i].source_type}

\* What detect_cycles has to leave: one cycle per edge with a reverse edge,
\* each of length 2 and naming two distinct types
CyclesAreDirectPairs ==
    graph_op = "detect_cycles"
    => /\ Len(circular_dependencies) = Cardinality(EdgesWithReverse)
       /\ \A i \in EdgesWithReverse :
              \E k \in 1..Len(circular_dependencies) :
                  circular_dependencies[k].cycle_types
                      = <<dependencies[i].source_type, dependencies[i].target_type>>
       /\ \A k \in 1..Len(circular_dependencies) :
              /\ \E i \in EdgesWithReverse :
                     circular_dependencies[k].cycle_types
                         = <<dependencies[i].source_type, dependencies[i].target_type>>
              /\ circular_dependencies[k].cycle_length = 2
              /\ circular_dependencies[k].cycle_types[1]
                     # circular_dependencies[k].cycle_types[2]
       /\ {dependencies[i] : i \in 1..Len(dependencies)}
              = {TypeDependency("A", "B"), TypeDependency("B", "C"),
                 TypeDependency("C", "A")}
          => circular_dependencies = <<>>

(* C21: detect_cycles reports a cycle for an edge (s, t) exactly when the
   reverse edge (t, s) is in dependencies; the cycle A->B, B->C, C->A leaves
   circular_dependencies empty; every reported cycle has cycle_length 2 and
   names two distinct types; and the result is recomputed from the edges
   alone, so a second detect_cycles in a row leaves the same list. *)
C21_DirectTwoCycles ==
    /\ CyclesAreDirectPairs
    /\ graph_op = "detect_cycles"
       => circular_dependencies = CyclesUpTo(dependencies, Len(dependencies))

\* The names is_ancestor answers TRUE for, and those is_descendant does
AncestorNames == {x \in HierarchyNames \cup {root_type} : is_ancestor(x)}

DescendantNames == {x \in HierarchyNames \cup {root_type} : is_descendant(x)}

(* C22: in every TypeHierarchy built by new, add_parent and add_child, the
   hierarchy's own type is neither among its parents nor among its
   descendants, and no name is at once an ancestor and a descendant. *)
C22_Acyclic ==
    /\ ~Contains(parents, root_type)
    /\ ~Contains(children, root_type)
    /\ ~Contains(descendants, root_type)
    /\ AncestorNames \cap DescendantNames = {}

\* The elements of a sequence
Elements(s) == {s[i] : i \in 1..Len(s)}

\* No element of the sequence occurs twice
NoDuplicates(s) == \A i, j \in 1..Len(s) : s[i] = s[j] => i = j

\* The sequence without the later occurrences of its elements
RECURSIVE FirstOccurrences(_)
FirstOccurrences(s) ==
    IF s = <<>> THEN <<>>
    ELSE LET front == FirstOccurrences(SubSeq(s, 1, Len(s) - 1))
         IN IF s[Len(s)] \in Elements(front) THEN front
            ELSE Append(front, s[Len(s)])

\* The lists of the hierarchy against the calls made on it
HierarchyInStep ==
    /\ NoDuplicates(parents)
    /\ NoDuplicates(children)
    /\ Elements(children) \subseteq Elements(descendants)
    /\ parents = FirstOccurrences(parents_added)
    /\ \A x \in HierarchyNames \cup {root_type, UnknownName} :
           /\ is_ancestor(x) <=> x \in Elements(parents_added)
           /\ is_descendant(x) <=> x \in Elements(children_added)

(* C26: after any sequence of add_parent and add_child calls, parents and
   children have no duplicates, every child is in descendants, parents is
   in first-insertion order, is_ancestor(x) holds exactly for the names
   added as a parent and is_descendant(x) exactly for the names added as a
   child; adding a name that is already present changes none of the
   lists. *)
C26_HierarchyLists ==
    /\ []HierarchyInStep
    /\ [][\A x \in HierarchyNames :
              /\ (add_parent(x) /\ Contains(parents, x))
                     => UNCHANGED <<root_type, parents, children, descendants>>
              /\ (add_child(x) /\ Contains(children, x))
                     => UNCHANGED <<root_type, parents, children, descendants>>]_vars

\* C26: a parent added a second time after another parent, and one child
C26_Witness ==
    /\ parents_added = <<"DomainResource", "Resource", "DomainResource">>
    /\ parents = <<"DomainResource", "Resource">>
    /\ children_added = <<"USCorePatient">>
    /\ children = <<"USCorePatient">>
    /\ descendants = <<"USCorePatient">>

\* The quick-lookup maps say no more than the conversions map
LookupsAgree ==
    \A a, b \in QueryTypes :
        /\ can_convert_implicitly(a, b)
               => /\ get_conversion_info(a, b) # None
                  /\ get_conversion_info(a, b)[1].conversion_type = "Implicit"
        /\ can_convert_explicitly(a, b)
               => /\ get_conversion_info(a, b) # None
                  /\ get_conversion_info(a, b)[1].conversion_type = "Explicit"

(* C23: in every state a reader can observe while the maps of a
   TypeCompatibilityMatrix are being populated, can_convert_implicitly(A, B)
   (resp. can_convert_explicitly) holds only if get_conversion_info(A, B) is
   present with kind Implicit (resp. Explicit), and find_conversion_path(A, B)
   is present only if can_convert_implicitly(A, B) holds. *)
C23_NoPartialMatrix ==
    /\ LookupsAgree
    /\ \A a, b \in QueryTypes :
           find_conversion_path(a, b) # None => can_convert_implicitly(a, b)

(* C24: construction hands out no ConstraintInfo with an empty key or an
   empty expression, and validate() returns Err exactly when the key, the
   expression or the human text is empty. *)
C24_RejectedAtConstruction ==
    /\ constraint # None
           => /\ ~is_empty(constraint[1].key)
              /\ ~is_empty(constraint[1].expression)
    /\ validated # None
           => (~validated[1].ok <=> \/ is_empty(constraint[1].key)
                                   \/ is_empty(constraint[1].expression)
                                   \/ is_empty(constraint[1].human))

(* C24, as the code has it: construction keeps the strings it is given,
   empty ones included, and the rejection is the result value of validate(),
   which is Err exactly when the key, the expression or the human text is
   empty and Ok otherwise; with_xpath and with_source do not touch the
   three strings. *)
C24_RejectedByValidate ==
    /\ [](validated # None
            => (~validated[1].ok <=> \/ is_empty(constraint[1].key)
                                    \/ is_empty(constraint[1].expression)
                                    \/ is_empty(constraint[1].human)))
    /\ [][\A key \in ConstraintKeys, severity \in ConstraintSeverities,
             human \in ConstraintHumans, expression \in ConstraintExpressions :
              ConstraintInfo_new(key, severity, human, expression)
              => /\ constraint'[1].key = key
                 /\ constraint'[1].human = human
                 /\ constraint'[1].expression = expression]_vars
    /\ [][constraint # None /\ constraint' # None
              => /\ constraint'[1].key = constraint[1].key
                 /\ constraint'[1].human = constraint[1].human
                 /\ constraint'[1].expression = constraint[1].expression]_vars

\* C24: a constraint built with a key and an expression but no human text,
\* and turned down by validate()
C24_Witness ==
    /\ constraint # None
    /\ validated # None
    /\ ~is_empty(constraint[1].key)
    /\ ~is_empty(constraint[1].expression)
    /\ is_empty(constraint[1].human)
    /\ ~validated[1].ok

\* Two quotients are the same number
SameRatio(p, q) == p[1] * q[2] = q[1] * p[2]

(* C25: after any sequence of add_dependency calls, repeated edges and
   self-edges included, density is within [0, 1], and it is
   edge_count / (node_count * (node_count - 1)) whenever node_count > 1. *)
C25_DensityRange ==
    LET m == complexity_metrics
    IN  /\ m.density[2] > 0
        /\ 0 <= m.density[1]
        /\ m.density[1] <= m.density[2]
        /\ m.node_count > 1
               => SameRatio(m.density,
                            Ratio(m.edge_count, m.node_count * (m.node_count - 1)))

\* A present result is one of the available types
ResultIsAvailable ==
    rc_result # None
    => /\ rc_result[1] # None
              => Contains(rc_context.available_types, rc_result[1][1])
       /\ rc_context.available_types = <<>> => rc_result[1] = None

(* C27: whatever the type, the strategy, the hints and the available types,
   a present result of resolve_choice_type is a member of
   context.available_types, the result is absent when available_types is
   empty, and the call leaves the context as it was. *)
C27_ResultAvailable ==
    /\ []ResultIsAvailable
    /\ [][call_resolve_choice_type => rc_context' = rc_context]_vars

\* C27: a contextual hint for a type that is not available is passed over
\* and the next contextual hint decides
C27_Witness ==
    /\ rc_result # None
    /\ rc_context.resolution_strategy = "ContextInferred"
    /\ Len(rc_context.inference_hints) = 2
    /\ rc_context.inference_hints[1].hint_type = "Contextual"
    /\ ~Contains(rc_context.available_types,
                 rc_context.inference_hints[1].suggested_type)
    /\ rc_result[1] = Some(rc_context.inference_hints[2].suggested_type)

\* After compute_resolution_order: the involved types, ascending
OrderIsSortedTypes ==
    graph_op = "compute_resolution_order"
    => /\ Len(resolution_order) = Len(involved_types)
       /\ Elements(resolution_order) = Elements(involved_types)
       /\ \A i, j \in 1..Len(resolution_order) :
              i < j => TypeRank[resolution_order[i]] < TypeRank[resolution_order[j]]

(* C28: add_dependency leaves circular_dependencies and resolution_order
   unchanged; detect_cycles changes nothing but circular_dependencies;
   compute_resolution_order changes nothing but resolution_order, and
   leaves it as the involved types in ascending lexical order. *)
C28_SeparateResults ==
    /\ []OrderIsSortedTypes
    /\ [][\A s, t \in GraphTypes :
              add_dependency(TypeDependency(s, t))
              => UNCHANGED <<circular_dependencies, resolution_order>>]_vars
    /\ [][detect_cycles
              => UNCHANGED <<dependencies, involved_types, resolution_order,
                             complexity_metrics>>]_vars
    /\ [][compute_resolution_order
              => UNCHANGED <<dependencies, involved_types, circular_dependencies,
                             complexity_metrics>>]_vars

\* C28: both results are stale after later add_dependency calls: the order
\* computed for B->A misses C, and the 2-cycle A<->B found nowhere
C28_Witness ==
    /\ graph_op = "add_dependency"
    /\ resolution_order = <<"A", "B">>
    /\ involved_types = <<"B", "A", "C">>
    /\ EdgesWithReverse # {}
    /\ circular_dependencies = <<>>

(* C29: common_supertype is commutative: a.common_supertype(b) equals
   b.common_supertype(a) for all type descriptors a and b, two types of one
   unqualified name in different namespaces and types whose declared base
   types name each other included. *)
C29_Commutative ==
    sub_result # None
    => sub_result[1].common_supertype = common_supertype(sub_other, sub_self)

\* The types the target name of the call stands for
TargetTypes == {b \in ConvTypes : qualified_name(b) = conv_target[1]}

\* A compatible type is a type the source converts to
CompatibleConverts ==
    conv_result # None
    => \A b \in TargetTypes :
           is_compatible_with(conv_self, b)
               => conv_result[1].conversion_type # "Forbidden"

\* A System promotion pair is compatible whatever base the source declares
PromotionsCompatible ==
    conv_result # None
    => \A b \in ConvTypes :
        (/\ conv_self.kind = "SimpleType" /\ b.kind = "SimpleType"
         /\ conv_self.namespace = System /\ b.namespace = System
         /\ is_system_type_compatible(name(conv_self), name(b)))
            => is_compatible_with(conv_self, b)

(* C30: for all simple or class types a and b, if a.is_compatible_with(b)
   then a.can_convert_to(b.qualified_name()) is not Forbidden, for identical
   types, System promotion and string pairs and a type whose declared base
   names b alike; and the System promotion pairs are compatible whatever
   base_type the source declares. *)
C30_ViewsAgree ==
    /\ CompatibleConverts
    /\ PromotionsCompatible

=============================================================================
